---- MODULE Spec2Model ----
(***************************************************************************)
(* Model of package multireadseeker (src/multireadseeker.go).              *)
(*                                                                         *)
(* The file holds two designs:                                             *)
(*   - the compiled MultiReadSeeker (New, Initialize, Close), which works  *)
(*     on caller-supplied ReadCloseSeeker children;                        *)
(*   - the ConcatFile design kept as a block comment (Open, Close, Read,   *)
(*     goToNextFile, Seek, findSeekIndex), which works on file names and   *)
(*     holds one open *os.File at a time.                                  *)
(* Each design is a state machine of its own: SpecMRS and SpecCF.          *)
(* Indexes are 0-based as in the Go code.                                  *)
(***************************************************************************)
EXTENDS Integers, Sequences, FiniteSets, TLC

\* ---- bounds of the model ----
MaxFiles == 2      \* at most this many sources / file names
MaxSize == 1       \* each source holds 0..MaxSize bytes
MaxLen == 2        \* Read is called with len(b) in 0..MaxLen
MaxOver == 1       \* Seek targets range from -MaxOver to total+MaxOver
MaxCloses == 2     \* MultiReadSeeker.Close is called at most this many times

\* ---- program constants ----
WHENCE_START == 0
WHENCE_ORIGIN == 0
WHENCE_CURRENT == 1
WHENCE_END == 2
seekImpossible == -1

VARIABLES
    sizes,             \* environment: sizes[i] = byte length of source / file i
    \* -- MultiReadSeeker (compiled code) --
    mrseeker,          \* what New returned: "unset" (not called), "nil", "ptr"
    children,          \* self.children: [nil, id] per slot
    superPosStart,     \* self.superPosStart
    superPosEnd,       \* self.superPosEnd
    currentSeekerNum,  \* self.currentSeekerNum
    currentSuperPos,   \* self.currentSuperPos
    childPos,          \* environment: each child's own cursor
    childSeeks,        \* environment: number of Seek calls received per child
    childText,         \* environment: how fmt prints each child under %v
    closeCount,        \* environment: number of Close calls received per child
    mret,              \* outcome of the last MultiReadSeeker call
    \* -- ConcatFile (design kept as commentary) --
    self,              \* what Open returned: "unset", "nil", "ptr"
    currently_open,
    num_files,
    current_file_num,
    fh,                \* the *os.File held: [nil, file, pos, closed]
    super_pos,
    super_size,
    super_pos_start,
    super_pos_end,
    ret,               \* outcome of the last ConcatFile call
    seekedTo,          \* p if the last ConcatFile call was Seek(p, WHENCE_ORIGIN)
                       \* returning no error, else seekImpossible
    faulted,           \* TRUE once a file operation has been made to fail; the
                       \* model lets at most one file operation per run fail
                       \* for a reason the ConcatFile has no part in
    seekFailed,        \* TRUE once the local seek inside a Seek has failed
    clean              \* TRUE while every ConcatFile call so far was a Read or Seek
                       \* in which no underlying operation failed and no error but EOF
                       \* was returned

mrsVars == <<mrseeker, children, superPosStart, superPosEnd, currentSeekerNum,
             currentSuperPos, childPos, childSeeks, childText, closeCount, mret>>
cfVars == <<self, currently_open, num_files, current_file_num, fh, super_pos,
            super_size, super_pos_start, super_pos_end, ret, seekedTo, faulted,
            seekFailed, clean>>
vars == <<sizes, mrsVars, cfVars>>

\* ---- environment ----
NumSources == Cardinality(DOMAIN sizes)
Idx == 0 .. (NumSources - 1)

RECURSIVE SumTo(_)
\* sum of the sizes of sources 0 .. k-1
SumTo(k) == IF k = 0 THEN 0 ELSE SumTo(k - 1) + sizes[k - 1]
TotalSize == SumTo(NumSources)

RECURSIVE ConcatTo(_)
\* in-order concatenation of the contents of sources 0 .. k-1; the byte at
\* local offset j of source i is the pair <<i, j>>, so every byte is distinct
ConcatTo(k) ==
    IF k = 0 THEN <<>>
    ELSE ConcatTo(k - 1) \o [j \in 1 .. sizes[k - 1] |-> <<k - 1, j - 1>>]
Concat == ConcatTo(NumSources)

Min(a, b) == IF a < b THEN a ELSE b
Max(a, b) == IF a > b THEN a ELSE b

SizeConfigs == UNION {[0 .. (n - 1) -> 0 .. MaxSize] : n \in 1 .. MaxFiles}

\* ======================================================================
\* MultiReadSeeker
\* ======================================================================

\* io.Seeker.Seek of a child holding `size` bytes: the position it returns
ChildSeek(size, cur, offset, whence) ==
    IF whence = WHENCE_START THEN offset
    ELSE IF whence = WHENCE_CURRENT THEN cur + offset
    ELSE size + offset

\* outcome record of a MultiReadSeeker call
MRet(op, n, panic, err, errChild, closeErrs, failing, before, errText, initFail) ==
    [op |-> op, n |-> n, panic |-> panic, err |-> err, errChild |-> errChild,
     errText |-> errText,       \* the child as the error message prints it
     initFail |-> initFail,     \* the seek that New's caller saw fail, if any
     closeErrs |-> closeErrs, failing |-> failing, before |-> before]

NoFail == [at |-> seekImpossible, op |-> "none"]
InitFails == {NoFail} \cup {[at |-> i, op |-> o] : i \in Idx, o \in {"end", "start"}}

\* what fmt's %v makes of a child; two children may print alike
ChildTexts == {"a", "b"}

NilChild == [nil |-> TRUE, id |-> 0]
Child(i) == [nil |-> FALSE, id |-> i]

\* zero value of a MultiReadSeeker plus the call's outcome
ZeroMRS ==
    [children |-> <<>>, superPosStart |-> <<>>, superPosEnd |-> <<>>,
     pos |-> childPos, seeks |-> childSeeks, err |-> "nil", errChild |-> seekImpossible,
     errText |-> ""]

\* Initialize: the two panics that guard it
InitializeGuard_NoEmptyCheck(selfChildren, n) ==
    IF Cardinality(DOMAIN selfChildren) # 0 THEN "MultiReadSeeker already initialized"
    ELSE "none"
InitializeGuard(selfChildren, n) ==
    IF Cardinality(DOMAIN selfChildren) # 0 THEN "MultiReadSeeker already initialized"
    ELSE IF n = 0 THEN "MultiReadSeeker needs at least one child"
    ELSE "none"

\* Initialize, loop body, first half: child.Seek(0, WHENCE_END) succeeded;
\* record the end and the start of child i
SurveyChild_StartAtPreviousEnd(st, i) ==
    LET endPos == ChildSeek(sizes[i], st.pos[i], 0, WHENCE_END) IN
    [st EXCEPT !.pos[i] = endPos,
               !.superPosEnd[i] = endPos,
               !.superPosStart[i] = IF i > 0 THEN st.superPosEnd[i - 1] ELSE @]
SurveyChild(st, i) ==
    LET endPos == ChildSeek(sizes[i], st.pos[i], 0, WHENCE_END) IN
    [st EXCEPT !.pos[i] = endPos,
               !.superPosEnd[i] = endPos,
               !.superPosStart[i] = IF i > 0 THEN st.superPosEnd[i - 1] + 1 ELSE @]

\* Initialize, loop body, second half: child.Seek(0, WHENCE_START) succeeded
RewindChild_Skipped(st, i) == st
RewindChild(st, i) ==
    [st EXCEPT !.pos[i] = ChildSeek(sizes[i], st.pos[i], 0, WHENCE_START)]

RECURSIVE InitializeLoop_ContinueAfterError(_, _, _, _)
InitializeLoop_ContinueAfterError(i, n, st, fail) ==
    IF i = n THEN st
    ELSE
      LET st1 == [st EXCEPT !.children[i] = Child(i), !.seeks[i] = @ + 1] IN
      IF fail.at = i /\ fail.op = "end"
      THEN InitializeLoop_ContinueAfterError(i + 1, n,
               [st1 EXCEPT !.err = "Seeking to end of", !.errChild = i,
                           !.errText = childText[i]], fail)
      ELSE
        LET st2 == [SurveyChild(st1, i) EXCEPT !.seeks[i] = @ + 1] IN
        IF fail.at = i /\ fail.op = "start"
        THEN InitializeLoop_ContinueAfterError(i + 1, n,
                 [st2 EXCEPT !.err = "Seeking to start of", !.errChild = i,
                             !.errText = childText[i]], fail)
        ELSE InitializeLoop_ContinueAfterError(i + 1, n, RewindChild(st2, i), fail)
RECURSIVE InitializeLoop(_, _, _, _)
\* Initialize, the loop over the n children from index i on; `fail` names the
\* child and the seek that returns an error, if any
InitializeLoop(i, n, st, fail) ==
    IF i = n THEN st
    ELSE
      LET st1 == [st EXCEPT !.children[i] = Child(i), !.seeks[i] = @ + 1] IN
      IF fail.at = i /\ fail.op = "end"
      THEN [st1 EXCEPT !.err = "Seeking to end of", !.errChild = i,
                       !.errText = childText[i]]
      ELSE
        LET st2 == [SurveyChild(st1, i) EXCEPT !.seeks[i] = @ + 1] IN
        IF fail.at = i /\ fail.op = "start"
        THEN [st2 EXCEPT !.err = "Seeking to start of", !.errChild = i,
                         !.errText = childText[i]]
        ELSE InitializeLoop(i + 1, n, RewindChild(st2, i), fail)

\* Initialize past its guards: the three make() calls, then the loop
InitializeBody(n, fail) ==
    InitializeLoop(0, n,
        [ZeroMRS EXCEPT !.children = [i \in 0 .. (n - 1) |-> NilChild],
                        !.superPosStart = [i \in 0 .. (n - 1) |-> 0],
                        !.superPosEnd = [i \in 0 .. (n - 1) |-> 0]],
        fail)

\* New(children...): allocate, Initialize, return (nil, err) or (ptr, nil).
\* The caller passes either no child at all or every source, in order.
New ==
    /\ mrseeker = "unset"
    /\ mret.panic = "none"
    /\ \E n \in {0, NumSources}, fail \in InitFails :
        LET guard == InitializeGuard(<<>>, n) IN
        IF guard # "none"
        THEN /\ mret' = MRet("New", n, guard, "none", seekImpossible, {}, {}, closeCount,
                             "", NoFail)
             /\ UNCHANGED <<mrseeker, children, superPosStart, superPosEnd,
                            childPos, childSeeks>>
        ELSE \E st \in {InitializeBody(n, fail)} :
             /\ mrseeker' = IF st.err = "nil" THEN "ptr" ELSE "nil"
             /\ children' = st.children
             /\ superPosStart' = st.superPosStart
             /\ superPosEnd' = st.superPosEnd
             /\ childPos' = st.pos
             /\ childSeeks' = st.seeks
             /\ mret' = MRet("New", n, "none", st.err, st.errChild, {}, {}, childPos,
                             st.errText, fail)
    /\ UNCHANGED <<currentSeekerNum, currentSuperPos, closeCount, sizes, childText, cfVars>>

\* Initialize called again on the MultiReadSeeker that New returned
Initialize ==
    /\ mrseeker = "ptr"
    /\ mret.panic = "none"
    /\ LET guard == InitializeGuard(children, NumSources) IN
       /\ guard # "none"
       /\ mret' = MRet("Initialize", NumSources, guard, "none", seekImpossible, {}, {},
                        closeCount, "", NoFail)
    /\ UNCHANGED <<mrseeker, children, superPosStart, superPosEnd, currentSeekerNum,
                   currentSuperPos, childPos, childSeeks, closeCount, sizes, childText, cfVars>>

RECURSIVE CloseLoop_StopAtFirst(_, _, _)
CloseLoop_StopAtFirst(i, st, failing) ==
    IF i = Cardinality(DOMAIN children) THEN st
    ELSE LET st1 == [st EXCEPT !.count[children[i].id] = @ + 1] IN
         IF i \in failing
         THEN [st1 EXCEPT !.errs = @ \cup {i}]
         ELSE CloseLoop_StopAtFirst(i + 1, st1, failing)
RECURSIVE CloseLoop(_, _, _)
\* Close, the loop over the children from index i on; `failing` is the set of
\* children whose Close returns an error
CloseLoop(i, st, failing) ==
    IF i = Cardinality(DOMAIN children) THEN st
    ELSE LET st1 == [st EXCEPT !.count[children[i].id] = @ + 1] IN
         CloseLoop(i + 1,
                   IF i \in failing THEN [st1 EXCEPT !.errs = @ \cup {i}] ELSE st1,
                   failing)

\* errset.ErrSet.ReturnValue: nil if there were no errors
ReturnValue(errs) == IF errs = {} THEN "nil" ELSE "ErrSet"

\* (*MultiReadSeeker).Close
Close ==
    /\ mrseeker = "ptr"
    /\ mret.panic = "none"
    /\ \A i \in Idx : closeCount[i] < MaxCloses
    /\ \E failing \in SUBSET Idx :
        \E st \in {CloseLoop(0, [count |-> closeCount, errs |-> {}], failing)} :
        /\ closeCount' = st.count
        /\ mret' = MRet("Close", NumSources, "none", ReturnValue(st.errs), seekImpossible,
                     st.errs, failing, closeCount, "", NoFail)
    /\ UNCHANGED <<mrseeker, children, superPosStart, superPosEnd, currentSeekerNum,
                   currentSuperPos, childPos, childSeeks, sizes, childText, cfVars>>

\* ======================================================================
\* ConcatFile
\* ======================================================================

\* ---- *os.File, as the code uses it ----
NilFile == [nil |-> TRUE, file |-> 0, pos |-> 0, closed |-> FALSE]

\* os.Open of file i succeeded: a fresh handle at offset 0
OsOpen(i) == [nil |-> FALSE, file |-> i, pos |-> 0, closed |-> FALSE]

NoFault == [kind |-> "none", file |-> seekImpossible]
\* an underlying operation that fails during one Read call: the read of, or
\* the os.Open of, file i
ReadFaults == {NoFault} \cup {[kind |-> k, file |-> i] : k \in {"read", "open"}, i \in Idx}
\* an underlying operation that fails during one Seek call
SeekFaults == {NoFault} \cup {[kind |-> k, file |-> seekImpossible] : k \in {"close", "open", "seek"}}

\* the faults one call can meet: at most one underlying operation fails in a run
FaultsLeft(F) == IF faulted THEN {NoFault} ELSE F

\* (*os.File).Read into a buffer of length L: a hard error delivers 0 bytes
FileRead(f, L, fault) ==
    IF f.nil THEN [fh |-> f, n |-> 0, err |-> "ErrInvalid", data |-> <<>>]
    ELSE IF f.closed THEN [fh |-> f, n |-> 0, err |-> "ErrClosed", data |-> <<>>]
    ELSE IF L = 0 THEN [fh |-> f, n |-> 0, err |-> "nil", data |-> <<>>]
    ELSE IF fault.kind = "read" /\ fault.file = f.file
    THEN [fh |-> f, n |-> 0, err |-> "EIO", data |-> <<>>]
    ELSE LET n == Min(L, Max(0, sizes[f.file] - f.pos)) IN
         [fh |-> [f EXCEPT !.pos = @ + n], n |-> n,
          err |-> IF n = 0 THEN "EOF" ELSE "nil",
          data |-> [j \in 1 .. n |-> <<f.file, f.pos + j - 1>>]]

\* (*os.File).Seek(offset, WHENCE_ORIGIN): returns 0 together with an error
FileSeek(f, offset, fault) ==
    IF f.nil THEN [fh |-> f, ret |-> 0, err |-> "ErrInvalid"]
    ELSE IF f.closed THEN [fh |-> f, ret |-> 0, err |-> "ErrClosed"]
    ELSE IF fault.kind = "seek" THEN [fh |-> f, ret |-> 0, err |-> "EIO"]
    ELSE IF offset < 0 THEN [fh |-> f, ret |-> 0, err |-> "EINVAL"]
    ELSE [fh |-> [f EXCEPT !.pos = offset], ret |-> offset, err |-> "nil"]

\* (*os.File).Close
FileClose(f, fault) ==
    IF f.nil THEN [fh |-> f, err |-> "ErrInvalid"]
    ELSE IF f.closed THEN [fh |-> f, err |-> "ErrClosed"]
    ELSE [fh |-> [f EXCEPT !.closed = TRUE],
          err |-> IF fault.kind = "close" THEN "EIO" ELSE "nil"]

\* outcome record of a ConcatFile call
NoRet ==
    [op |-> "none", len |-> 0, offset |-> 0, whence |-> 0, fault |-> NoFault,
     n |-> 0, err |-> "nil", data |-> <<>>, pos |-> 0, before |-> 0,
     hardAt |-> seekImpossible, readFrom |-> {},
     ops |-> 0,                   \* file operations the call invoked
     seekAt |-> <<>>,             \* <<file, offset>> of the fh.Seek the call made
     wasOpen |-> FALSE,           \* Close found the ConcatFile open
     seeked |-> seekImpossible,   \* seekedTo when the call began
     wasClean |-> FALSE,          \* clean when the call began
     afterSeekFailure |-> FALSE]  \* seekFailed when the call began

\* ---- Open ----
\* the boundary table of Open: [start, end] after files 0 .. k-1
RECURSIVE OpenTable(_)
OpenTable(k) ==
    IF k = 0 THEN [start |-> <<>>, end |-> <<>>]
    ELSE LET t == OpenTable(k - 1)
             i == k - 1
             st == IF i > 0 THEN t.end[i - 1] + 1 ELSE 0
         IN [start |-> (i :> st) @@ t.start,
             end |-> (i :> (st + sizes[i] - 1)) @@ t.end]

\* Open(names): names is either empty or names every file, in order; `failed`
\* says that an os.Open or a Stat inside it returned an error
Open ==
    /\ self = "unset"
    /\ \E n \in {0, NumSources}, failed \in BOOLEAN :
        IF n = 0 \/ failed
        THEN /\ self' = "nil"
             /\ ret' = [NoRet EXCEPT !.op = "Open", !.len = n,
                           !.err = IF n = 0 THEN "At least one file name is required"
                                   ELSE "ErrOpen"]
             /\ clean' = FALSE
             /\ UNCHANGED <<currently_open, num_files, current_file_num, fh, super_pos,
                            super_size, super_pos_start, super_pos_end>>
        ELSE LET t == OpenTable(n) IN
             /\ self' = "ptr"
             /\ num_files' = n
             /\ current_file_num' = 0
             /\ super_pos_start' = t.start
             /\ super_pos_end' = t.end
             /\ super_size' = t.end[n - 1] + 1
             /\ fh' = OsOpen(0)
             /\ currently_open' = TRUE
             /\ super_pos' = 0
             /\ ret' = [NoRet EXCEPT !.op = "Open", !.len = n]
             /\ clean' = TRUE
    /\ seekedTo' = seekImpossible
    /\ UNCHANGED <<faulted, seekFailed, sizes, mrsVars>>

\* ---- Close ----
CFClose ==
    /\ self = "ptr"
    /\ \E failing \in BOOLEAN :
        IF currently_open
        THEN LET c == FileClose(fh, IF failing THEN [NoFault EXCEPT !.kind = "close"]
                                                ELSE NoFault) IN
             /\ failing => (c.err = "EIO" /\ ~faulted)
             /\ faulted' = (faulted \/ failing)
             /\ currently_open' = FALSE
             /\ fh' = c.fh
             /\ ret' = [NoRet EXCEPT !.op = "Close", !.err = c.err, !.wasOpen = TRUE,
                                      !.before = super_pos]
        ELSE /\ ~failing
             /\ ret' = [NoRet EXCEPT !.op = "Close", !.before = super_pos]
             /\ UNCHANGED <<currently_open, fh, faulted>>
    /\ clean' = FALSE
    /\ seekedTo' = seekImpossible
    /\ UNCHANGED <<self, num_files, current_file_num, super_pos, super_size,
                   super_pos_start, super_pos_end, seekFailed, sizes, mrsVars>>

\* ---- Read ----
\* goToNextFile: [st, incremented, err]; the error of fh.Close is dropped
GoToNextFile(st, fault) ==
    IF st.current_file_num < num_files - 1
    THEN LET next == st.current_file_num + 1
             openFails == fault.kind = "open" /\ fault.file = next
         IN [st |-> [st EXCEPT !.current_file_num = next,
                               !.ops = @ + 2,
                               !.fired = @ \/ openFails,
                               !.fh = IF openFails THEN NilFile ELSE OsOpen(next)],
             incremented |-> TRUE,
             err |-> IF openFails THEN "ErrOpen" ELSE "nil"]
    ELSE [st |-> st, incremented |-> FALSE, err |-> "nil"]

\* the state a call works on, with the log of what the call did to the files
CallState ==
    [currently_open |-> currently_open, current_file_num |-> current_file_num,
     fh |-> fh, super_pos |-> super_pos,
     hardAt |-> seekImpossible,   \* file whose read returned a hard error first
     readFrom |-> {},             \* files whose Read was invoked
     ops |-> 0,                   \* calls of fh.Read, fh.Seek, fh.Close, os.Open
     seekAt |-> <<>>,             \* file of the handle and offset passed to fh.Seek
     fired |-> FALSE,             \* the call's fault has happened
     seekErr |-> FALSE]           \* the local seek of the call returned an error

IsHard(err) == err \notin {"nil", "EOF"}

RECURSIVE ReadRec(_, _, _)
\* Read(b) with len(b) = L: [st, n, err, data]
ReadRec(st, L, fault) ==
    IF ~st.currently_open
    THEN [st |-> st, n |-> 0, err |-> "ErrUnexpectedEOF", data |-> <<>>]
    ELSE
      LET r == FileRead(st.fh, L, fault)
          st1 == [st EXCEPT !.fh = r.fh,
                            !.super_pos = @ + r.n,
                            !.ops = @ + 1,
                            !.readFrom = IF st.fh.nil THEN @ ELSE @ \cup {st.fh.file},
                            !.hardAt = IF @ = seekImpossible /\ IsHard(r.err)
                                       THEN st.current_file_num ELSE @,
                            !.fired = @ \/ r.err = "EIO"]
      IN
      IF r.n = L THEN [st |-> st1, n |-> r.n, err |-> r.err, data |-> r.data]
      ELSE
        LET g == GoToNextFile(st1, fault) IN
        IF g.err # "nil" THEN [st |-> g.st, n |-> r.n, err |-> g.err, data |-> r.data]
        ELSE IF g.incremented
        THEN LET sub == ReadRec(g.st, L - r.n, fault) IN
             [st |-> sub.st, n |-> r.n + sub.n, err |-> sub.err, data |-> r.data \o sub.data]
        ELSE IF r.n > 0 THEN [st |-> g.st, n |-> r.n, err |-> r.err, data |-> r.data]
        ELSE [st |-> g.st, n |-> r.n, err |-> "EOF", data |-> r.data]

Read ==
    /\ self = "ptr"
    /\ \E L \in 0 .. MaxLen, fault \in FaultsLeft(ReadFaults) :
        \E r \in {ReadRec(CallState, L, fault)} :
        /\ fault = NoFault \/ r.st.fired
        /\ faulted' = (faulted \/ fault # NoFault)
        /\ currently_open' = r.st.currently_open
        /\ current_file_num' = r.st.current_file_num
        /\ fh' = r.st.fh
        /\ super_pos' = r.st.super_pos
        /\ ret' = [NoRet EXCEPT !.op = "Read", !.len = L, !.fault = fault, !.n = r.n,
                                 !.err = r.err, !.data = r.data, !.pos = r.st.super_pos,
                                 !.before = super_pos, !.hardAt = r.st.hardAt,
                                 !.readFrom = r.st.readFrom, !.ops = r.st.ops,
                                 !.seeked = seekedTo, !.wasClean = clean,
                                 !.afterSeekFailure = seekFailed]
        /\ clean' = (clean /\ fault = NoFault /\ ~IsHard(r.err))
    /\ seekedTo' = seekImpossible
    /\ UNCHANGED <<self, num_files, super_size, super_pos_start, super_pos_end,
                   seekFailed, sizes, mrsVars>>

\* ---- Seek ----
RECURSIVE FindFrom(_, _)
\* findSeekIndex, the loop over the files from index i on
FindFrom(i, new_super_pos) ==
    IF i = num_files THEN seekImpossible
    ELSE IF new_super_pos >= super_pos_start[i] /\ new_super_pos <= super_pos_end[i] THEN i
    ELSE FindFrom(i + 1, new_super_pos)

findSeekIndex(new_super_pos) ==
    IF new_super_pos < 0 THEN seekImpossible ELSE FindFrom(0, new_super_pos)

\* Seek, first part: the new super position and the file it falls in, or the
\* early return of the call
SeekTarget_NoFastPath(pos, offset, whence) ==
    IF whence = WHENCE_ORIGIN
    THEN [return |-> FALSE, err |-> "nil", new_super_pos |-> offset,
          seek_index |-> IF offset = 0 THEN 0 ELSE findSeekIndex(offset)]
    ELSE IF whence = WHENCE_CURRENT
    THEN [return |-> FALSE, err |-> "nil", new_super_pos |-> pos + offset,
          seek_index |-> findSeekIndex(pos + offset)]
    ELSE IF whence = WHENCE_END
    THEN IF offset > 0
         THEN [return |-> TRUE, err |-> "seek must be <= 0", new_super_pos |-> pos,
               seek_index |-> 0]
         ELSE [return |-> FALSE, err |-> "nil", new_super_pos |-> super_size + offset,
               seek_index |-> findSeekIndex(super_size + offset)]
    ELSE [return |-> TRUE, err |-> "whence must be 0, 1, or 2", new_super_pos |-> pos,
          seek_index |-> 0]
SeekTarget_EndAnyOffset(pos, offset, whence) ==
    IF whence = WHENCE_ORIGIN
    THEN [return |-> FALSE, err |-> "nil", new_super_pos |-> offset,
          seek_index |-> IF offset = 0 THEN 0 ELSE findSeekIndex(offset)]
    ELSE IF whence = WHENCE_CURRENT
    THEN IF offset = 0
         THEN [return |-> TRUE, err |-> "nil", new_super_pos |-> pos, seek_index |-> 0]
         ELSE [return |-> FALSE, err |-> "nil", new_super_pos |-> pos + offset,
               seek_index |-> findSeekIndex(pos + offset)]
    ELSE IF whence = WHENCE_END
    THEN [return |-> FALSE, err |-> "nil", new_super_pos |-> super_size + offset,
          seek_index |-> findSeekIndex(super_size + offset)]
    ELSE [return |-> TRUE, err |-> "whence must be 0, 1, or 2", new_super_pos |-> pos,
          seek_index |-> 0]
SeekTarget_EndCatchAll(pos, offset, whence) ==
    IF whence = WHENCE_ORIGIN
    THEN [return |-> FALSE, err |-> "nil", new_super_pos |-> offset,
          seek_index |-> IF offset = 0 THEN 0 ELSE findSeekIndex(offset)]
    ELSE IF whence = WHENCE_CURRENT
    THEN IF offset = 0
         THEN [return |-> TRUE, err |-> "nil", new_super_pos |-> pos, seek_index |-> 0]
         ELSE [return |-> FALSE, err |-> "nil", new_super_pos |-> pos + offset,
               seek_index |-> findSeekIndex(pos + offset)]
    ELSE IF offset > 0
         THEN [return |-> TRUE, err |-> "seek must be <= 0", new_super_pos |-> pos,
               seek_index |-> 0]
         ELSE [return |-> FALSE, err |-> "nil", new_super_pos |-> super_size + offset,
               seek_index |-> findSeekIndex(super_size + offset)]
SeekTarget(pos, offset, whence) ==
    IF whence = WHENCE_ORIGIN
    THEN [return |-> FALSE, err |-> "nil", new_super_pos |-> offset,
          seek_index |-> IF offset = 0 THEN 0 ELSE findSeekIndex(offset)]
    ELSE IF whence = WHENCE_CURRENT
    THEN IF offset = 0
         THEN [return |-> TRUE, err |-> "nil", new_super_pos |-> pos, seek_index |-> 0]
         ELSE [return |-> FALSE, err |-> "nil", new_super_pos |-> pos + offset,
               seek_index |-> findSeekIndex(pos + offset)]
    ELSE IF whence = WHENCE_END
    THEN IF offset > 0
         THEN [return |-> TRUE, err |-> "seek must be <= 0", new_super_pos |-> pos,
               seek_index |-> 0]
         ELSE [return |-> FALSE, err |-> "nil", new_super_pos |-> super_size + offset,
               seek_index |-> findSeekIndex(super_size + offset)]
    ELSE [return |-> TRUE, err |-> "whence must be 0, 1, or 2", new_super_pos |-> pos,
          seek_index |-> 0]

\* Seek, second part: a position in no file goes to the last file, or to the
\* first file when seeking from the end
ClampIndex_AlwaysLast(seek_index, whence) ==
    IF seek_index = seekImpossible THEN num_files - 1 ELSE seek_index
ClampIndex(seek_index, whence) ==
    IF seek_index = seekImpossible
    THEN IF whence = WHENCE_END THEN 0 ELSE num_files - 1
    ELSE seek_index

\* Seek, third part: change files if needed: [st, err]
SwitchFile(st, seek_index, fault) ==
    IF seek_index # st.current_file_num
    THEN LET c == FileClose(st.fh, fault) IN
         IF c.err # "nil"
         THEN [st |-> [st EXCEPT !.fh = c.fh, !.currently_open = FALSE,
                                 !.ops = @ + 1,
                                 !.fired = @ \/ c.err = "EIO"],
               err |-> c.err]
         ELSE IF fault.kind = "open"
         THEN [st |-> [st EXCEPT !.fh = NilFile, !.currently_open = FALSE,
                                 !.ops = @ + 2,
                                 !.fired = TRUE],
               err |-> "ErrOpen"]
         ELSE [st |-> [st EXCEPT !.fh = OsOpen(seek_index),
                                 !.ops = @ + 2,
                                 !.current_file_num = seek_index],
               err |-> "nil"]
    ELSE [st |-> st, err |-> "nil"]

\* Seek, last part: seek to the absolute position in the correct file:
\* [st, pos, err]
SeekLocal_KeepTarget(st, new_super_pos, seek_index, fault) ==
    LET s == FileSeek(st.fh, new_super_pos - super_pos_start[seek_index], fault) IN
    IF s.err # "nil"
    THEN [st |-> [st EXCEPT !.fh = s.fh, !.currently_open = FALSE,
                            !.ops = @ + 1,
                            !.seekAt = <<st.fh.file, new_super_pos - super_pos_start[seek_index]>>,
                            !.fired = @ \/ s.err = "EIO", !.seekErr = TRUE,
                            !.super_pos = new_super_pos],
          pos |-> new_super_pos, err |-> s.err]
    ELSE [st |-> [st EXCEPT !.fh = s.fh, !.ops = @ + 1,
                            !.seekAt = <<st.fh.file, new_super_pos - super_pos_start[seek_index]>>,
                            !.super_pos = new_super_pos],
          pos |-> new_super_pos, err |-> "nil"]
SeekLocal_NoRebase(st, new_super_pos, seek_index, fault) ==
    LET s == FileSeek(st.fh, new_super_pos, fault) IN
    IF s.err # "nil"
    THEN [st |-> [st EXCEPT !.fh = s.fh, !.currently_open = FALSE,
                            !.ops = @ + 1,
                            !.seekAt = <<st.fh.file, new_super_pos>>,
                            !.fired = @ \/ s.err = "EIO", !.seekErr = TRUE,
                            !.super_pos = super_pos_start[seek_index] + s.ret],
          pos |-> super_pos_start[seek_index] + s.ret, err |-> s.err]
    ELSE [st |-> [st EXCEPT !.fh = s.fh, !.ops = @ + 1,
                            !.seekAt = <<st.fh.file, new_super_pos>>,
                            !.super_pos = new_super_pos],
          pos |-> new_super_pos, err |-> "nil"]
SeekLocal(st, new_super_pos, seek_index, fault) ==
    LET s == FileSeek(st.fh, new_super_pos - super_pos_start[seek_index], fault) IN
    IF s.err # "nil"
    THEN [st |-> [st EXCEPT !.fh = s.fh, !.currently_open = FALSE,
                            !.ops = @ + 1,
                            !.seekAt = <<st.fh.file, new_super_pos - super_pos_start[seek_index]>>,
                            !.fired = @ \/ s.err = "EIO", !.seekErr = TRUE,
                            !.super_pos = super_pos_start[seek_index] + s.ret],
          pos |-> super_pos_start[seek_index] + s.ret, err |-> s.err]
    ELSE [st |-> [st EXCEPT !.fh = s.fh, !.ops = @ + 1,
                            !.seekAt = <<st.fh.file, new_super_pos - super_pos_start[seek_index]>>,
                            !.super_pos = new_super_pos],
          pos |-> new_super_pos, err |-> "nil"]

\* Seek(offset, whence): [st, pos, err]
SeekOp_CloseOnReject(st, offset, whence, fault) ==
    LET t == SeekTarget(st.super_pos, offset, whence) IN
    IF t.return THEN [st |-> [st EXCEPT !.currently_open = @ /\ t.err = "nil"],
                      pos |-> st.super_pos, err |-> t.err]
    ELSE LET seek_index == ClampIndex(t.seek_index, whence)
             sw == SwitchFile(st, seek_index, fault)
         IN IF sw.err # "nil" THEN [st |-> sw.st, pos |-> st.super_pos, err |-> sw.err]
            ELSE SeekLocal(sw.st, t.new_super_pos, seek_index, fault)
SeekOp(st, offset, whence, fault) ==
    LET t == SeekTarget(st.super_pos, offset, whence) IN
    IF t.return THEN [st |-> st, pos |-> st.super_pos, err |-> t.err]
    ELSE LET seek_index == ClampIndex(t.seek_index, whence)
             sw == SwitchFile(st, seek_index, fault)
         IN IF sw.err # "nil" THEN [st |-> sw.st, pos |-> st.super_pos, err |-> sw.err]
            ELSE SeekLocal(sw.st, t.new_super_pos, seek_index, fault)

Whences == {WHENCE_ORIGIN - 1, WHENCE_ORIGIN, WHENCE_CURRENT, WHENCE_END, WHENCE_END + 1}
\* the positions a Seek of the model aims at
SeekTargets == (0 - MaxOver) .. (TotalSize + MaxOver)
\* the offsets a Seek of the model is called with: those that aim at a position
\* of SeekTargets; small steps from the current position; a negative, a zero
\* and a positive offset with a whence that is none of the three
SeekOffsets(whence) ==
    IF whence = WHENCE_ORIGIN THEN SeekTargets
    ELSE IF whence = WHENCE_CURRENT
    THEN {d \in (0 - MaxOver) .. MaxOver : super_pos + d \in SeekTargets}
    ELSE IF whence = WHENCE_END THEN {t - super_size : t \in SeekTargets}
    ELSE {0 - MaxOver, 0, MaxOver}

Seek ==
    /\ self = "ptr"
    /\ \E whence \in Whences :
       \E offset \in SeekOffsets(whence), fault \in FaultsLeft(SeekFaults) :
           \E r \in {SeekOp(CallState, offset, whence, fault)} :
           /\ fault = NoFault \/ r.st.fired
           /\ faulted' = (faulted \/ fault # NoFault)
           /\ currently_open' = r.st.currently_open
           /\ current_file_num' = r.st.current_file_num
           /\ fh' = r.st.fh
           /\ super_pos' = r.st.super_pos
           /\ ret' = [NoRet EXCEPT !.op = "Seek", !.offset = offset, !.whence = whence,
                                    !.fault = fault, !.err = r.err, !.pos = r.pos,
                                    !.before = super_pos, !.ops = r.st.ops,
                                    !.seekAt = r.st.seekAt,
                                    !.afterSeekFailure = seekFailed]
           /\ seekFailed' = (seekFailed \/ r.st.seekErr)
           /\ clean' = (clean /\ fault = NoFault /\ r.err = "nil")
           /\ seekedTo' = IF whence = WHENCE_ORIGIN /\ r.err = "nil" THEN offset
                          ELSE seekImpossible
    /\ UNCHANGED <<self, num_files, super_size, super_pos_start, super_pos_end,
                   sizes, mrsVars>>

CFIdle ==
    /\ self = "unset"
    /\ currently_open = FALSE
    /\ num_files = 0
    /\ current_file_num = 0
    /\ fh = NilFile
    /\ super_pos = 0
    /\ super_size = 0
    /\ super_pos_start = <<>>
    /\ super_pos_end = <<>>
    /\ ret = NoRet
    /\ seekedTo = seekImpossible
    /\ faulted = FALSE
    /\ seekFailed = FALSE
    /\ clean = TRUE

\* The children are handed to New already open, each positioned anywhere
InitMRS ==
    /\ sizes \in SizeConfigs
    /\ mrseeker = "unset"
    /\ children = <<>>
    /\ superPosStart = <<>>
    /\ superPosEnd = <<>>
    /\ currentSeekerNum = 0
    /\ currentSuperPos = 0
    /\ childPos \in [DOMAIN sizes -> 0 .. MaxSize]
    /\ \A i \in DOMAIN sizes : childPos[i] <= sizes[i]
    /\ childSeeks = [i \in DOMAIN sizes |-> 0]
    /\ childText \in [DOMAIN sizes -> ChildTexts]
    /\ closeCount = [i \in DOMAIN sizes |-> 0]
    /\ mret = MRet("none", 0, "none", "none", seekImpossible, {}, {}, closeCount, "", NoFail)
    /\ CFIdle

InitCF ==
    /\ sizes \in SizeConfigs
    /\ mrseeker = "unset"
    /\ children = <<>>
    /\ superPosStart = <<>>
    /\ superPosEnd = <<>>
    /\ currentSeekerNum = 0
    /\ currentSuperPos = 0
    /\ childPos = [i \in DOMAIN sizes |-> 0]
    /\ childSeeks = [i \in DOMAIN sizes |-> 0]
    /\ childText = [i \in DOMAIN sizes |-> "a"]
    /\ closeCount = [i \in DOMAIN sizes |-> 0]
    /\ mret = MRet("none", 0, "none", "none", seekImpossible, {}, {}, closeCount, "", NoFail)
    /\ CFIdle

\* ======================================================================
\* Properties of MultiReadSeeker (checked under SpecMRS)
\* ======================================================================

\* C1: after a successful construction every source i is recorded with
\* endOffset[i] = startOffset[i] + s[i] - 1, and endOffset[N-1] + 1 is the sum
\* of the sizes.  (Stated as claimed; Initialize stores the child's own end
\* position, so this fails.)
C1_EndOffsetsFromSizes ==
    mrseeker = "ptr" =>
        /\ \A i \in Idx : superPosEnd[i] = superPosStart[i] + sizes[i] - 1
        /\ superPosEnd[NumSources - 1] + 1 = TotalSize

C6_CloseAllAggregate ==
    mret.op = "Close" =>
        /\ \A i \in Idx : closeCount[i] = mret.before[i] + 1
        /\ (mret.err # "nil") <=> (mret.failing # {})
        /\ mret.closeErrs = mret.failing

\* the first child's Close failed, a later child's did not, and both were closed
C6_Witness ==
    /\ mret.op = "Close"
    /\ NumSources >= 2
    /\ mret.failing = {0}
    /\ closeCount[1] = mret.before[1] + 1
    /\ mret.err = "ErrSet"

\* C7: after a successful construction every child's cursor is at 0, whatever
\* it was before, and the stream is at position 0 on child 0.
C7_RewoundAfterConstruction ==
    mrseeker = "ptr" =>
        /\ \A i \in Idx : childPos[i] = 0
        /\ currentSuperPos = 0
        /\ currentSeekerNum = 0

\* constructed over children that were all away from their start
C7_Witness ==
    /\ mrseeker = "ptr"
    /\ mret.op = "New"
    /\ NumSources >= 2
    /\ \A i \in Idx : mret.before[i] > 0 /\ childPos[i] = 0 /\ childSeeks[i] = 2

\* C14: once New has returned a stream, superPosStart[0] = 0 and
\* superPosStart[i] = superPosEnd[i-1] + 1 for every i > 0, with one entry per
\* child in both tables, and no later call changes an entry of either table.
C14_BoundaryTableChained ==
    [][mrseeker' = "ptr" =>
          /\ DOMAIN superPosStart' = Idx /\ DOMAIN superPosEnd' = Idx
          /\ superPosStart'[0] = 0
          /\ \A i \in Idx : i > 0 => superPosStart'[i] = superPosEnd'[i - 1] + 1
          /\ mrseeker = "ptr" =>
                (superPosStart' = superPosStart /\ superPosEnd' = superPosEnd)]_vars

\* a stream over two non-empty children, after a Close
C14_Witness ==
    /\ mrseeker = "ptr" /\ mret.op = "Close"
    /\ NumSources = 2 /\ sizes[0] > 0 /\ sizes[1] > 0
    /\ superPosStart[1] = superPosEnd[0] + 1

C13_ClosedExactlyOnce ==
    mrseeker = "ptr" =>
        \A i \in Idx :
            /\ closeCount[i] <= 1
            /\ mret.op = "Close" => closeCount[i] = 1

\* C16 as claimed: over the table a successful construction leaves, every p
\* with 0 <= p < totalSize lies in the range superPosStart[i] .. superPosEnd[i]
\* of exactly one source i, and that source is not empty; a p below 0 or at or
\* beyond totalSize lies in the range of no source.
C16_ResolutionIsFunction ==
    mrseeker = "ptr" =>
        \A p \in (0 - MaxOver) .. (TotalSize + MaxOver) :
            LET resolved == {i \in Idx : superPosStart[i] <= p /\ p <= superPosEnd[i]} IN
            IF 0 <= p /\ p < TotalSize
            THEN Cardinality(resolved) = 1 /\ \A i \in resolved : sizes[i] > 0
            ELSE resolved = {}

\* ======================================================================
\* Properties of ConcatFile (checked under SpecCF)
\* ======================================================================

\* the call was a Read in which no underlying operation failed, issued when
\* every call before it had succeeded
CleanRead == ret.op = "Read" /\ ret.wasClean /\ ret.fault = NoFault

\* C2: for 0 <= p < totalSize, Seek(p, start) followed at once by a Read of
\* one byte returns byte p of the concatenation of the files.
C2_SeekThenReadOneByte ==
    (CleanRead /\ ret.len = 1 /\ ret.seeked >= 0 /\ ret.seeked < TotalSize) =>
        /\ ret.n = 1
        /\ ret.data = <<Concat[ret.seeked + 1]>>
        /\ ret.err = "nil"

\* the byte asked for is the first byte of the second file
C2_Witness ==
    /\ CleanRead /\ ret.len = 1
    /\ NumSources >= 2 /\ sizes[0] > 0
    /\ ret.seeked = sizes[0]
    /\ ret.data = <<<<1, 0>>>>

\* C3 as claimed: one Read of length L at position q returns bytes q .. q+k-1
\* of the concatenation, k = min(L, totalSize - q) (0 at or past the end),
\* crossing file boundaries within the call, and leaves the position at q + k.
C3_ReadSpansFiles ==
    CleanRead =>
        LET q == ret.before
            k == Max(0, Min(ret.len, TotalSize - q))
        IN /\ ret.n = k
           /\ ret.data = SubSeq(Concat, q + 1, q + k)
           /\ super_pos = q + k

\* C4 as claimed: the position always lies in 0 .. totalSize.
C4_PositionWithinTotal ==
    self = "ptr" => (0 <= super_pos /\ super_pos <= super_size)

\* C4 as amended: the position is never negative, and a Seek that succeeds
\* leaves it at the position the Seek aimed at; no upper bound holds, since
\* that position lies beyond totalSize for an overshooting offset from the
\* start or from the current position.
C4_PositionLowerBound ==
    self = "ptr" =>
        /\ super_pos >= 0
        /\ (ret.op = "Seek" /\ ret.err = "nil") =>
              /\ super_pos = ret.pos
              /\ super_pos = (IF ret.whence = WHENCE_ORIGIN THEN 0
                              ELSE IF ret.whence = WHENCE_CURRENT THEN ret.before
                              ELSE TotalSize) + ret.offset

C4_Witness ==
    /\ ret.op = "Seek" /\ ret.err = "nil"
    /\ super_pos > super_size

\* C8 as claimed: once the local seek inside a Seek has failed, every later
\* Read and every later Seek fails with the closed-stream error.
C8_FailedSeekIsFatal ==
    (ret.op \in {"Read", "Seek"} /\ ret.afterSeekFailure) => ret.err = "ErrUnexpectedEOF"

\* C9 as claimed: a hard error of a file's read is returned by that Read call,
\* which neither moves on to a later file nor reads from one, and whose count
\* is the number of bytes obtained before the error.
C9_HardErrorSurfaced ==
    (ret.op = "Read" /\ ret.fault.kind = "read" /\ ret.hardAt = ret.fault.file) =>
        /\ ret.err = "EIO"
        /\ current_file_num = ret.hardAt
        /\ \A f \in ret.readFrom : f <= ret.hardAt
        /\ ret.n = Len(ret.data)

\* C10 as claimed: a Read of length >= 1 reports end-of-stream exactly when it
\* obtained no byte; a short count at the tail comes with no error.
C10_ShortReadThenEOF ==
    (CleanRead /\ ret.len >= 1) =>
        /\ ret.n > 0 => ret.err = "nil"
        /\ ret.n = 0 => ret.err = "EOF"

\* C11: Seek(0, current), from any cursor state, returns the current position
\* with no error, leaves super_pos and current_file_num (and the open flag and
\* the file handle) as they were, and invokes no operation on any file.
C11_SeekZeroCurrentIsNoOp ==
    [][(ret'.op = "Seek" /\ ret'.whence = WHENCE_CURRENT /\ ret'.offset = 0) =>
          /\ ret'.err = "nil"
          /\ ret'.pos = super_pos
          /\ super_pos' = super_pos
          /\ current_file_num' = current_file_num
          /\ currently_open' = currently_open
          /\ fh' = fh
          /\ ret'.ops = 0]_vars

\* Seek(0, current) was called with the cursor inside the second file
C11_Witness ==
    /\ ret.op = "Seek" /\ ret.whence = WHENCE_CURRENT /\ ret.offset = 0
    /\ current_file_num = 1 /\ super_pos > 0 /\ currently_open
    /\ ret.pos = super_pos /\ ret.ops = 0

\* the ConcatFile is open and holds a usable handle
Healthy == currently_open /\ ~fh.nil /\ ~fh.closed

\* C12: Seek with a positive offset from the end fails with the error of
\* lines 318-320; Seek(-1, end) on a stream of at least one byte, open and
\* with no file operation failing, succeeds, returns totalSize - 1 and leaves
\* the position there.
C12_SeekFromEnd ==
    [][(ret'.op = "Seek" /\ ret'.whence = WHENCE_END) =>
          /\ ret'.offset > 0 => ret'.err = "seek must be <= 0"
          /\ (ret'.offset = -1 /\ TotalSize >= 1 /\ Healthy /\ ret'.fault = NoFault) =>
                /\ ret'.err = "nil"
                /\ ret'.pos = TotalSize - 1
                /\ super_pos' = TotalSize - 1]_vars

\* Seek(-1, end) took the cursor from the first file to the last byte, which
\* lies in the second file
C12_Witness ==
    /\ ret.op = "Seek" /\ ret.whence = WHENCE_END /\ ret.offset = -1
    /\ ret.err = "nil" /\ ret.before = 0
    /\ NumSources = 2 /\ sizes[0] > 0 /\ sizes[1] > 0
    /\ super_pos = TotalSize - 1 /\ current_file_num = 1 /\ fh.pos = sizes[1] - 1

\* C15: a Seek whose whence is none of 0, 1, 2 fails with the error of lines
\* 326-328, for every offset and from every state, and returns the position
\* the stream had.
C15_BadWhenceRejected ==
    (ret.op = "Seek" /\ ret.whence \notin {WHENCE_ORIGIN, WHENCE_CURRENT, WHENCE_END}) =>
        /\ ret.err = "whence must be 0, 1, or 2"
        /\ ret.pos = ret.before

\* a Seek with whence 3 and a negative offset, the cursor being past the start
C15_Witness ==
    /\ ret.op = "Seek" /\ ret.whence = WHENCE_END + 1 /\ ret.offset < 0
    /\ ret.before > 0
    /\ ret.err = "whence must be 0, 1, or 2"

\* C17 as claimed: a Seek (not rejected, not the Seek(0, current) fast path,
\* stream open, no file operation failing) whose candidate position lies in no
\* file addresses the last file for origin start or current and the first file
\* for origin end; it issues the local seek on that file at candidate minus the
\* file's start; on success that file is the current one and the position
\* returned is the stream's position.
C17_ClampLastOrFirst ==
    [][(/\ ret'.op = "Seek" /\ Healthy /\ ret'.fault = NoFault
        /\ ret'.whence \in {WHENCE_ORIGIN, WHENCE_CURRENT, WHENCE_END}
        /\ ~(ret'.whence = WHENCE_CURRENT /\ ret'.offset = 0)
        /\ ~(ret'.whence = WHENCE_END /\ ret'.offset > 0)) =>
          LET candidate == (IF ret'.whence = WHENCE_ORIGIN THEN 0
                            ELSE IF ret'.whence = WHENCE_CURRENT THEN super_pos
                            ELSE TotalSize) + ret'.offset
              addressed == IF ret'.whence = WHENCE_END THEN 0 ELSE NumSources - 1
          IN (candidate < 0 \/ candidate >= TotalSize) =>
                /\ ret'.seekAt = <<addressed, candidate - super_pos_start[addressed]>>
                /\ ret'.err = "nil" =>
                      /\ current_file_num' = addressed
                      /\ fh'.file = addressed
                      /\ fh'.pos = candidate - super_pos_start[addressed]
                      /\ ret'.pos = super_pos']_vars

\* C17 as amended: as above, except that Seek(0, start) always addresses the
\* first file, without a lookup, also when every file is empty and position 0
\* lies in no file.
C17_ClampExceptSeekZeroStart ==
    [][(/\ ret'.op = "Seek" /\ Healthy /\ ret'.fault = NoFault
        /\ ret'.whence \in {WHENCE_ORIGIN, WHENCE_CURRENT, WHENCE_END}
        /\ ~(ret'.whence = WHENCE_CURRENT /\ ret'.offset = 0)
        /\ ~(ret'.whence = WHENCE_END /\ ret'.offset > 0)) =>
          LET candidate == (IF ret'.whence = WHENCE_ORIGIN THEN 0
                            ELSE IF ret'.whence = WHENCE_CURRENT THEN super_pos
                            ELSE TotalSize) + ret'.offset
              addressed == IF \/ ret'.whence = WHENCE_END
                              \/ (ret'.whence = WHENCE_ORIGIN /\ ret'.offset = 0)
                           THEN 0 ELSE NumSources - 1
          IN (candidate < 0 \/ candidate >= TotalSize) =>
                /\ ret'.seekAt = <<addressed, candidate - super_pos_start[addressed]>>
                /\ ret'.err = "nil" =>
                      /\ current_file_num' = addressed
                      /\ fh'.file = addressed
                      /\ fh'.pos = candidate - super_pos_start[addressed]
                      /\ ret'.pos = super_pos']_vars

\* a Seek from the start to beyond the end took the cursor from the first
\* file to the last
C17_Witness ==
    /\ ret.op = "Seek" /\ ret.whence = WHENCE_ORIGIN /\ ret.offset > TotalSize
    /\ ret.err = "nil" /\ ret.before = 0
    /\ NumSources = 2 /\ TotalSize > 0
    /\ current_file_num = 1 /\ ret.seekAt = <<1, ret.offset - super_pos_start[1]>>

\* C19 as claimed: in every state that is not failed (stream open, handle
\* usable, no file operation has failed) the handle is that of file
\* current_file_num and its offset is super_pos - super_pos_start[current_file_num];
\* and a Read that moved on into later files read each of them from offset 0.
C19_CursorCoherent ==
    (self = "ptr" /\ Healthy /\ ~faulted) =>
        /\ fh.file = current_file_num
        /\ fh.pos = super_pos - super_pos_start[current_file_num]
        /\ ret.op = "Read" =>
              \A k \in 1 .. Len(ret.data) :
                  (/\ \E f \in ret.readFrom : f < ret.data[k][1]
                   /\ (k = 1 \/ ret.data[k - 1][1] # ret.data[k][1])) =>
                      ret.data[k][2] = 0

\* C20: a Seek that is rejected for its arguments (a whence that is none of 0,
\* 1, 2, or a positive offset from the end) returns one of the two argument
\* errors and leaves current_file_num, super_pos, currently_open and the file
\* handle with its offset as they were, invoking no file operation.
C20_RejectedSeekChangesNothing ==
    [][(/\ ret'.op = "Seek"
        /\ \/ ret'.whence \notin {WHENCE_ORIGIN, WHENCE_CURRENT, WHENCE_END}
           \/ (ret'.whence = WHENCE_END /\ ret'.offset > 0)) =>
          /\ ret'.err \in {"seek must be <= 0", "whence must be 0, 1, or 2"}
          /\ current_file_num' = current_file_num
          /\ super_pos' = super_pos
          /\ currently_open' = currently_open
          /\ fh' = fh
          /\ ret'.ops = 0 /\ ret'.seekAt = <<>>]_vars

\* Seek(1, end) was rejected with the stream open and the cursor inside the
\* second file
C20_Witness ==
    /\ ret.op = "Seek" /\ ret.whence = WHENCE_END /\ ret.offset > 0
    /\ ret.err = "seek must be <= 0"
    /\ currently_open /\ current_file_num = 1 /\ fh.pos > 0 /\ super_pos > 0

NextMRS == New \/ Initialize \/ Close
SpecMRS == InitMRS /\ [][NextMRS]_vars

NextCF == Open \/ CFClose \/ Read \/ Seek
SpecCF == InitCF /\ [][NextCF]_vars
====
